---- MODULE Spec2Model ----
(***************************************************************************)
(* A model of kd_tree.py: the 2-d tree KDTree (build by repeated stable    *)
(* sort and median split, range query, nearest-neighbour query) together   *)
(* with a sequential caller that owns the point list handed to insert.     *)
(*                                                                         *)
(* Encoding.  A Point is the pair <<x, y>>; Python's p[axis] (axis 0 or 1) *)
(* is p[axis + 1].  A Rectangle is <<lower, upper>>.  None is the empty    *)
(* tuple and Node(location, left, right) is the triple                     *)
(* <<location, left, right>>.  A Python list is a sequence.                *)
(***************************************************************************)
EXTENDS Integers, Sequences, FiniteSets

\* Coordinates of every point handed to the tree or used in a query: 0..MaxCoord.
MaxCoord == 1
\* Points handed to insert over one run, all calls of insert together.
MaxPoints == 4

Coords == 0..MaxCoord
Points == Coords \X Coords
Rectangles == Points \X Points

ToSet(s) == {s[i] : i \in 1..Len(s)}
Count(s, v) == Cardinality({i \in 1..Len(s) : s[i] = v})

-----------------------------------------------------------------------------
(* Value types *)

None == <<>>
Node(loc, l, r) == <<loc, l, r>>
location(node) == node[1]
left(node) == node[2]
right(node) == node[3]

lower(rectangle) == rectangle[1]
upper(rectangle) == rectangle[2]

is_contains(rectangle, p) ==
    /\ lower(rectangle)[1] <= p[1] /\ p[1] <= upper(rectangle)[1]
    /\ lower(rectangle)[2] <= p[2] /\ p[2] <= upper(rectangle)[2]

\* _distance is the float square root of this integer.  On the integers of
\* the model the square root is exact enough to be strictly monotone, so
\*   _distance(a, p) <  _distance(b, p)  iff  _distance2(a, p) <  _distance2(b, p)
\*   _distance(a, p) == _distance(b, p)  iff  _distance2(a, p) =  _distance2(b, p)
_distance2(p1, p2) ==
    (p1[1] - p2[1]) * (p1[1] - p2[1]) + (p1[2] - p2[2]) * (p1[2] - p2[2])

\* c + sqrt(d2) >= bound, over the integers.
PlusDistGeq(c, d2, bound) ==
    \/ bound - c <= 0
    \/ (bound - c) * (bound - c) <= d2

\* c - sqrt(d2) <= bound, over the integers.
MinusDistLeq(c, d2, bound) ==
    \/ c - bound <= 0
    \/ (c - bound) * (c - bound) <= d2

-----------------------------------------------------------------------------
(* Build *)

\* list.sort(key = lambda x: x[axis]): ascending, stable.
RECURSIVE sort(_, _)
sort(p, axis) ==
    IF Len(p) <= 1 THEN p
    ELSE LET rest == sort(SubSeq(p, 1, Len(p) - 1), axis)
             x    == p[Len(p)]
             k    == Cardinality({i \in 1..Len(rest) : rest[i][axis + 1] <= x[axis + 1]})
         IN  SubSeq(rest, 1, k) \o <<x>> \o SubSeq(rest, k + 1, Len(rest))

\* _create with the sorted list thrown away (sorted(p, ...) for p.sort(...)).
RECURSIVE _create_unsorted(_, _)
_create_unsorted(p, depth) ==
    IF Len(p) = 0 THEN None
    ELSE IF Len(p) = 1 THEN Node(p[1], None, None)
    ELSE LET median == Len(p) \div 2
         IN  Node(p[median + 1],
                  _create_unsorted(SubSeq(p, 1, median), depth + 1),
                  _create_unsorted(SubSeq(p, median + 2, Len(p)), depth + 1))

\* _create with the median at (len(p) - 1) // 2.
RECURSIVE _create_low_median(_, _)
_create_low_median(p, depth) ==
    IF Len(p) = 0 THEN None
    ELSE IF Len(p) = 1 THEN Node(p[1], None, None)
    ELSE LET axis   == depth % 2
             s      == sort(p, axis)
             median == (Len(s) - 1) \div 2
         IN  Node(s[median + 1],
                  _create_low_median(SubSeq(s, 1, median), depth + 1),
                  _create_low_median(SubSeq(s, median + 2, Len(s)), depth + 1))

\* What _create returns.
RECURSIVE _create(_, _)
_create(p, depth) ==
    IF Len(p) = 0 THEN None
    ELSE IF Len(p) = 1 THEN Node(p[1], None, None)
    ELSE LET axis   == depth % 2
             s      == sort(p, axis)
             median == Len(s) \div 2
         IN  Node(s[median + 1],
                  _create(SubSeq(s, 1, median), depth + 1),
                  _create(SubSeq(s, median + 2, Len(s)), depth + 1))

\* What _create leaves in the list object p it was handed: p.sort sorts in
\* place; the recursive calls get slices, which are copies.
_create_p(p, depth) ==
    IF Len(p) <= 1 THEN p ELSE sort(p, depth % 2)

\* The locations stored in a tree, in preorder.
RECURSIVE locations(_)
locations(node) ==
    IF node = None THEN <<>>
    ELSE <<location(node)>> \o locations(left(node)) \o locations(right(node))

\* KDTree(): the object __init__ leaves.
__init__ == [_root |-> None, _n |-> 0]

\* insert that adds the new points to the ones the tree holds.
insert_add(self, p) ==
    [_root |-> _create(locations(self._root) \o p, 0), _n |-> self._n + Len(p)]

\* KDTree.insert on the object self = [_root, _n]: the object afterwards.
insert(self, p) ==
    [_root |-> _create(p, 0), _n |-> Len(p)]

-----------------------------------------------------------------------------
(* Range query *)

\* _range that descends left only when lower[axis] < location[axis].
RECURSIVE _range_strict(_, _, _, _)
_range_strict(node, rectangle, depth, result) ==
    IF node = None THEN result
    ELSE LET r1   == IF is_contains(rectangle, location(node))
                     THEN Append(result, location(node)) ELSE result
             axis == depth % 2
             r2   == IF lower(rectangle)[axis + 1] < location(node)[axis + 1]
                     THEN _range_strict(left(node), rectangle, depth + 1, r1) ELSE r1
         IN  IF upper(rectangle)[axis + 1] >= location(node)[axis + 1]
             THEN _range_strict(right(node), rectangle, depth + 1, r2) ELSE r2

\* _range that appends a location only if the result does not hold it yet.
RECURSIVE _range_dedup(_, _, _, _)
_range_dedup(node, rectangle, depth, result) ==
    IF node = None THEN result
    ELSE LET r1   == IF is_contains(rectangle, location(node))
                        /\ location(node) \notin ToSet(result)
                     THEN Append(result, location(node)) ELSE result
             axis == depth % 2
             r2   == IF lower(rectangle)[axis + 1] <= location(node)[axis + 1]
                     THEN _range_dedup(left(node), rectangle, depth + 1, r1) ELSE r1
         IN  IF upper(rectangle)[axis + 1] >= location(node)[axis + 1]
             THEN _range_dedup(right(node), rectangle, depth + 1, r2) ELSE r2

RECURSIVE _range(_, _, _, _)
_range(node, rectangle, depth, result) ==
    IF node = None THEN result
    ELSE LET r1   == IF is_contains(rectangle, location(node))
                     THEN Append(result, location(node)) ELSE result
             axis == depth % 2
             r2   == IF lower(rectangle)[axis + 1] <= location(node)[axis + 1]
                     THEN _range(left(node), rectangle, depth + 1, r1) ELSE r1
         IN  IF upper(rectangle)[axis + 1] >= location(node)[axis + 1]
             THEN _range(right(node), rectangle, depth + 1, r2) ELSE r2

range(self, rectangle) == _range(self._root, rectangle, 0, <<>>)

-----------------------------------------------------------------------------
(* Nearest-neighbour query, one step of _nearest at a time *)

\* _nearest_best with <= for <: an equally distant node replaces the list.
_nearest_best_replace(node, p, best) ==
    IF Len(best) = 0
       \/ _distance2(p, location(node)) <= _distance2(p, best[1])
    THEN <<location(node)>>
    ELSE best

\* Lines 76-79: the best list after the node's own location is examined.
_nearest_best(node, p, best) ==
    IF Len(best) = 0
       \/ _distance2(p, location(node)) < _distance2(p, best[1])
    THEN <<location(node)>>
    ELSE IF _distance2(p, location(node)) = _distance2(p, best[1])
    THEN Append(best, location(node))
    ELSE best

\* Line 81: the subtree searched first.
_nearest_first(node, p, depth) ==
    IF p[(depth % 2) + 1] < location(node)[(depth % 2) + 1] THEN "left" ELSE "right"

\* c + sqrt(d2) > bound, over the integers.
PlusDistGt(c, d2, bound) ==
    \/ bound - c < 0
    \/ (bound - c) * (bound - c) < d2

\* c - sqrt(d2) < bound, over the integers.
MinusDistLt(c, d2, bound) ==
    \/ c - bound < 0
    \/ (c - bound) * (c - bound) < d2

\* _nearest_far with > for >= and < for <=.
_nearest_far_strict(node, p, depth, best, first) ==
    LET axis == depth % 2
    IN  IF first = "left"
        THEN PlusDistGt(p[axis + 1], _distance2(p, best[1]), location(node)[axis + 1])
        ELSE MinusDistLt(p[axis + 1], _distance2(p, best[1]), location(node)[axis + 1])

\* Lines 83 and 87: whether the other subtree is searched too, decided with
\* the best list as it is when the first search has returned.
_nearest_far(node, p, depth, best, first) ==
    LET axis == depth % 2
    IN  IF first = "left"
        THEN PlusDistGeq(p[axis + 1], _distance2(p, best[1]), location(node)[axis + 1])
        ELSE MinusDistLeq(p[axis + 1], _distance2(p, best[1]), location(node)[axis + 1])

\* A frame of the call stack of _nearest: the node and depth of the call and
\* the place the call is at: "enter" (line 74), "after_left" (line 83, the
\* search of the left subtree has returned), "after_right" (line 87).
Frame(node, depth, at) == [node |-> node, depth |-> depth, at |-> at]

Pop(stk) == SubSeq(stk, 1, Len(stk) - 1)
Top(stk) == stk[Len(stk)]

\* _nearest_enter without the test of line 74: None.location raises.
_nearest_enter_unguarded(f, p, best) ==
    IF f.node = None
    THEN [best |-> best, err |-> TRUE, frames |-> <<>>]
    ELSE LET first == _nearest_first(f.node, p, f.depth)
         IN  [best   |-> _nearest_best(f.node, p, best),
              err    |-> FALSE,
              frames |-> IF first = "left"
                         THEN <<Frame(f.node, f.depth, "after_left"),
                                Frame(left(f.node), f.depth + 1, "enter")>>
                         ELSE <<Frame(f.node, f.depth, "after_right"),
                                Frame(right(f.node), f.depth + 1, "enter")>>]

\* Lines 74-82 and 85-86 for the call in frame f: the best list, whether the
\* step raised, and the frames that replace f on the stack.
_nearest_enter(f, p, best) ==
    IF f.node = None
    THEN [best |-> best, err |-> FALSE, frames |-> <<>>]
    ELSE LET first == _nearest_first(f.node, p, f.depth)
         IN  [best   |-> _nearest_best(f.node, p, best),
              err    |-> FALSE,
              frames |-> IF first = "left"
                         THEN <<Frame(f.node, f.depth, "after_left"),
                                Frame(left(f.node), f.depth + 1, "enter")>>
                         ELSE <<Frame(f.node, f.depth, "after_right"),
                                Frame(right(f.node), f.depth + 1, "enter")>>]

\* Lines 83-84 and 87-89 for the call in frame f.  best[0] raises IndexError
\* on an empty list.
_nearest_after(f, p, best) ==
    IF Len(best) = 0
    THEN [err |-> TRUE, frames |-> <<>>]
    ELSE LET first == IF f.at = "after_left" THEN "left" ELSE "right"
             other == IF first = "left" THEN right(f.node) ELSE left(f.node)
         IN  [err    |-> FALSE,
              frames |-> IF _nearest_far(f.node, p, f.depth, best, first)
                         THEN <<Frame(other, f.depth + 1, "enter")>>
                         ELSE <<>>]

\* _nearest as the recursive function it is: the best list it returns.
RECURSIVE _nearest(_, _, _, _)
_nearest(node, p, depth, best) ==
    IF node = None THEN best
    ELSE LET b1    == _nearest_best(node, p, best)
             first == _nearest_first(node, p, depth)
             near  == IF first = "left" THEN left(node) ELSE right(node)
             other == IF first = "left" THEN right(node) ELSE left(node)
             b2    == _nearest(near, p, depth + 1, b1)
         IN  IF _nearest_far(node, p, depth, b2, first)
             THEN _nearest(other, p, depth + 1, b2) ELSE b2

nearest(self, p) == _nearest(self._root, p, 0, <<>>)

-----------------------------------------------------------------------------
(* State *)

VARIABLES
    _root,      \* KDTree._root
    _n,         \* KDTree._n
    points,     \* the caller's list object, the one handed to insert
    arg,        \* history: how often each point occurred in the list when
                \*   insert was last called
    total,      \* history: points handed to insert so far
    dropped,    \* history: the last insert replaced a tree holding a point
                \*   that the new list does not hold
    pc,         \* "idle", "insert" (about to call insert), "nearest"
                \*   (inside nearest), "returned" (a query has returned)
    op,         \* the query the caller made last: "none", "range", "nearest"
    rectangle,  \* argument of range
    q,          \* argument of nearest
    result,     \* what the last query returned
    stack,      \* call stack of _nearest
    best,       \* the best list of _nearest
    visited,    \* history: locations _nearest has examined in this call
    err         \* an exception was raised

vars == <<_root, _n, points, arg, total, dropped, pc, op, rectangle, q,
          result, stack, best, visited, err>>

tree == <<_root, _n>>
history == <<arg, total, dropped>>
traversal == <<stack, best, visited>>

self == [_root |-> _root, _n |-> _n]

NoRectangle == <<<<0, 0>>, <<0, 0>>>>
NoPoint == <<0, 0>>

\* kd = KDTree(); the caller has no list yet.
Init ==
    /\ _root = __init__._root
    /\ _n = __init__._n
    /\ points = <<>>
    /\ arg = [v \in Points |-> 0]
    /\ total = 0
    /\ dropped = FALSE
    /\ pc = "idle"
    /\ op = "none"
    /\ rectangle = NoRectangle
    /\ q = NoPoint
    /\ result = <<>>
    /\ stack = <<>>
    /\ best = <<>>
    /\ visited = {}
    /\ err = FALSE

\* points = [...]: the caller makes the list it is about to hand to insert.
NewList(p) ==
    /\ pc = "idle"
    /\ total + Len(p) <= MaxPoints
    /\ pc' = "insert"
    /\ points' = p
    /\ UNCHANGED <<tree, history, op, rectangle, q, result, traversal, err>>

\* kd.insert(points)
Insert ==
    /\ pc = "insert"
    /\ pc' = "idle"
    /\ _root' = insert(self, points)._root
    /\ _n' = insert(self, points)._n
    /\ points' = _create_p(points, 0)
    /\ arg' = [v \in Points |-> Count(points, v)]
    /\ total' = total + Len(points)
    /\ dropped' = \E v \in Points : arg[v] > 0 /\ Count(points, v) = 0
    /\ UNCHANGED <<op, rectangle, q, result, traversal, err>>

\* Range that records the size of the result in _n.
Range_counting(r) ==
    /\ pc = "idle"
    /\ pc' = "returned"
    /\ op' = "range"
    /\ rectangle' = r
    /\ result' = range(self, r)
    /\ _n' = Len(range(self, r))
    /\ UNCHANGED <<_root, points, history, q, traversal, err>>

\* result = kd.range(r)
Range(r) ==
    /\ pc = "idle"
    /\ pc' = "returned"
    /\ op' = "range"
    /\ rectangle' = r
    /\ result' = range(self, r)
    /\ UNCHANGED <<tree, points, history, q, traversal, err>>

\* The caller makes the same range query once more.
RangeAgain ==
    /\ pc = "returned"
    /\ op = "range"
    /\ result' = range(self, rectangle)
    /\ UNCHANGED <<tree, points, history, pc, op, rectangle, q, traversal, err>>

\* kd.nearest(p): the call of _nearest(self._root, p, 0, []).
Nearest(p) ==
    /\ pc = "idle"
    /\ pc' = "nearest"
    /\ op' = "nearest"
    /\ q' = p
    /\ stack' = <<Frame(_root, 0, "enter")>>
    /\ best' = <<>>
    /\ visited' = {}
    /\ UNCHANGED <<tree, points, history, rectangle, result, err>>

\* A call of _nearest starts: lines 74-82, 85-86.
NearestEnter ==
    /\ pc = "nearest"
    /\ stack # <<>>
    /\ Top(stack).at = "enter"
    /\ LET f == Top(stack)
           s == _nearest_enter(f, q, best)
       IN  /\ best' = s.best
           /\ err' = s.err
           /\ stack' = IF s.err THEN <<>> ELSE Pop(stack) \o s.frames
           /\ visited' = IF f.node = None THEN visited
                         ELSE visited \cup {location(f.node)}
    /\ UNCHANGED <<tree, points, history, pc, op, rectangle, q, result>>

\* The first recursive call has returned: lines 83-84, 87-89.
NearestAfter ==
    /\ pc = "nearest"
    /\ stack # <<>>
    /\ Top(stack).at \in {"after_left", "after_right"}
    /\ LET s == _nearest_after(Top(stack), q, best)
       IN  /\ err' = s.err
           /\ stack' = IF s.err THEN <<>> ELSE Pop(stack) \o s.frames
    /\ UNCHANGED <<tree, points, history, pc, op, rectangle, q, result, best, visited>>

\* The outermost call returns (line 93), or the exception reaches the caller.
NearestReturn ==
    /\ pc = "nearest"
    /\ stack = <<>>
    /\ pc' = "returned"
    /\ result' = IF err THEN result ELSE best
    /\ UNCHANGED <<tree, points, history, op, rectangle, q, traversal, err>>

\* The caller makes the same nearest query once more, the whole call taken
\* as one step.
NearestAgain ==
    /\ pc = "returned"
    /\ op = "nearest"
    /\ ~err
    /\ result' = nearest(self, q)
    /\ UNCHANGED <<tree, points, history, pc, op, rectangle, q, traversal, err>>

\* The caller is done with the result.
Done ==
    /\ pc = "returned"
    /\ pc' = "idle"
    /\ op' = "none"
    /\ rectangle' = NoRectangle
    /\ q' = NoPoint
    /\ result' = <<>>
    /\ best' = <<>>
    /\ visited' = {}
    /\ err' = FALSE
    /\ UNCHANGED <<tree, points, history, stack>>

\* The calls the caller can make when it is between calls, with every
\* argument within the bounds.
CallInsert ==
    /\ pc = "idle"
    /\ \E k \in 0..(MaxPoints - total) : \E p \in [1..k -> Points] : NewList(p)

CallRange ==
    /\ pc = "idle"
    /\ \E r \in Rectangles : Range(r)

CallNearest ==
    /\ pc = "idle"
    /\ \E p \in Points : Nearest(p)

Next ==
    \/ CallInsert
    \/ Insert
    \/ CallRange
    \/ RangeAgain
    \/ CallNearest
    \/ NearestEnter
    \/ NearestAfter
    \/ NearestReturn
    \/ NearestAgain
    \/ Done

Spec == Init /\ [][Next]_vars

\* The caller only builds trees.
NextBuild ==
    \/ CallInsert
    \/ Insert

SpecBuild == Init /\ [][NextBuild]_vars

-----------------------------------------------------------------------------
(* Properties *)

RangeReturned == pc = "returned" /\ op = "range"
NearestReturned == pc = "returned" /\ op = "nearest"

\* The points of the list last handed to insert.
Stored == {v \in Points : arg[v] > 0}

\* The stored points at the least distance from p.
Closest(p) ==
    {v \in Stored : \A w \in Stored : _distance2(v, p) <= _distance2(w, p)}

\* The tree a new KDTree holds after insert(p) alone.
OnlyInsert(p) == insert(__init__, p)

\* C1: after insert(P), range(R) returns, as a set, exactly the points of P
\* that R contains, for every list P (empty, with ties on an axis) and every
\* rectangle R (also with lower > upper on an axis).
C1_RangeExact ==
    RangeReturned =>
        ToSet(result) = {v \in Stored : is_contains(rectangle, v)}

\* A range query on a tree of four points, two of them with the same x as
\* the root, that returned some stored points and left some out.
C1_Witness ==
    /\ RangeReturned
    /\ _n = 4
    /\ location(left(_root))[1] = location(_root)[1]
    /\ result # <<>>
    /\ \E v \in Stored : ~is_contains(rectangle, v)

\* C2: after insert(P) with P not empty, nearest(q) returns, as a set,
\* exactly the points of P at the least distance from q: every point tied
\* for the minimum and no other point.
C2_NearestExact ==
    (NearestReturned /\ Stored # {}) =>
        /\ ~err
        /\ ToSet(result) = Closest(q)

\* A nearest query on a tree of four points that returned two different
\* points and examined a point it did not return.
C2_Witness ==
    /\ NearestReturned
    /\ _n = 4
    /\ Cardinality(ToSet(result)) >= 2
    /\ visited \ ToSet(result) # {}

\* C3: insert replaces: the insert step leaves the object a new KDTree
\* holds after insert of the same list alone, every query then returns what
\* that tree returns, and every point returned is a point of the last list.
C3_InsertReplaces ==
    /\ [][pc = "insert" =>
            /\ _root' = OnlyInsert(points)._root
            /\ _n' = OnlyInsert(points)._n]_vars
    /\ [](RangeReturned => result = range(OnlyInsert(points), rectangle))
    /\ []((NearestReturned /\ ~err) => result = nearest(OnlyInsert(points), q))
    /\ [](pc = "returned" => ToSet(result) \subseteq Stored)

\* A query returned points after an insert that replaced a tree holding a
\* point the new list does not hold.
C3_Witness ==
    /\ dropped
    /\ pc = "returned"
    /\ result # <<>>

\* C4: with no root (new KDTree, or after insert of the empty list) range
\* and nearest return the empty list and raise nothing.
C4_EmptyTree ==
    _root = None =>
        /\ ~err
        /\ pc = "returned" => result = <<>>

\* nearest has returned on a tree emptied by insert of the empty list.
C4_Witness ==
    /\ _root = None
    /\ total > 0
    /\ NearestReturned

\* C5: range returns each point value that R contains as many times as it
\* occurs in P, and no other point.
C5_RangeMultiset ==
    RangeReturned =>
        \A v \in Points :
            Count(result, v) = IF is_contains(rectangle, v) THEN arg[v] ELSE 0

\* A range query returned a point twice.
C5_Witness ==
    /\ RangeReturned
    /\ \E v \in Points : Count(result, v) = 2

\* C6: insert(P) leaves the caller's list P with the same points in the
\* same order.
C6_CallerListKept ==
    [][pc = "insert" => points' = points]_vars

\* C7: no step of range or nearest changes _root or _n, and the same query
\* made again without an insert in between returns the same set.
C7_QueriesReadOnly ==
    /\ [][(pc \in {"nearest", "returned"} \/ pc' \in {"nearest", "returned"}) =>
            /\ _root' = _root
            /\ _n' = _n]_vars
    /\ [][(pc = "returned" /\ pc' = "returned") =>
            ToSet(result') = ToSet(result)]_vars

\* A query has returned points of a tree of four points.
C7_Witness ==
    /\ pc = "returned"
    /\ _n = 4
    /\ result # <<>>

\* Every point below a node on its left is <= the node on the node's axis,
\* every point below it on its right is >=, at every node.
RECURSIVE Split(_, _)
Split(node, depth) ==
    \/ node = None
    \/ LET axis == depth % 2
       IN  /\ \A v \in ToSet(locations(left(node))) :
                 v[axis + 1] <= location(node)[axis + 1]
           /\ \A v \in ToSet(locations(right(node))) :
                 v[axis + 1] >= location(node)[axis + 1]
           /\ Split(left(node), depth + 1)
           /\ Split(right(node), depth + 1)

\* C8: in every tree insert builds, at each node at depth d the points of
\* the left subtree are <= the node on axis d mod 2 and those of the right
\* subtree are >=, ties included.
C8_Splitting ==
    Split(_root, 0)

\* A tree with a node at depth 1 that has a child with the same y, and a
\* child of the root with the same x as the root.
C8_Witness ==
    /\ _n = 4
    /\ location(left(_root))[1] = location(_root)[1]
    /\ location(left(left(_root)))[2] = location(left(_root))[2]
    /\ location(left(left(_root))) # location(left(_root))

Size(node) == Len(locations(node))

\* At every node the left subtree holds floor(n / 2) points and the right
\* n - 1 - floor(n / 2), n the points of the node's subtree.
RECURSIVE Balanced(_)
Balanced(node) ==
    \/ node = None
    \/ /\ Size(left(node)) = Size(node) \div 2
       /\ Size(right(node)) = Size(node) - 1 - (Size(node) \div 2)
       /\ Size(left(node)) - Size(right(node)) \in {0, 1}
       /\ Balanced(left(node))
       /\ Balanced(right(node))

\* C9: in every tree insert builds, a node whose subtree holds n points has
\* floor(n / 2) of them on its left and n - 1 - floor(n / 2) on its right:
\* the sizes differ by at most one and the left is never the smaller.
C9_MedianSplit ==
    /\ Balanced(_root)
    /\ Size(_root) = _n

\* A tree of four points: two on the left of the root, one on the right.
C9_Witness ==
    /\ _n = 4
    /\ Size(left(_root)) = 2
    /\ Size(right(_root)) = 1

\* The least distance from q over the locations examined so far.
IsLeastVisited(d2) ==
    /\ \E v \in visited : _distance2(v, q) = d2
    /\ \A v \in visited : d2 <= _distance2(v, q)

\* _nearest is about to examine the location of a node.
Examines ==
    /\ pc = "nearest"
    /\ stack # <<>>
    /\ Top(stack).at = "enter"
    /\ Top(stack).node # None

\* C10: during nearest(q), once the root has been examined, best is not
\* empty, its members are examined locations all at the least distance from
\* q over the examined locations, and that distance never grows: a closer
\* node replaces the list, an equally distant one is appended, a farther
\* one leaves the list as it is.
C10_BestSet ==
    /\ []((op = "nearest" /\ visited # {}) =>
            /\ best # <<>>
            /\ ToSet(best) \subseteq visited
            /\ \A i \in 1..Len(best) : IsLeastVisited(_distance2(best[i], q)))
    /\ [][(op = "nearest" /\ best # <<>> /\ op' = "nearest") =>
            /\ best' # <<>>
            /\ _distance2(best'[1], q) <= _distance2(best[1], q)
            /\ IF Examines
               THEN LET loc == location(Top(stack).node)
                    IN  best' =
                          IF _distance2(loc, q) < _distance2(best[1], q)
                          THEN <<loc>>
                          ELSE IF _distance2(loc, q) = _distance2(best[1], q)
                          THEN Append(best, loc)
                          ELSE best
               ELSE best' = best]_vars

\* Inside nearest, three locations examined, two of them tied in best and
\* one farther.
C10_Witness ==
    /\ pc = "nearest"
    /\ Cardinality(visited) >= 3
    /\ Len(best) >= 2
    /\ visited \ ToSet(best) # {}

=============================================================================
